---- MODULE Spec2Model ----
(***************************************************************************)
(* Confusion scoring and session lifecycle of the Learn page               *)
(* (src/src/pages/Learn.tsx) over the learning_sessions and                *)
(* session_attempts tables of the initial schema                           *)
(* (src/supabase/migrations/20260226102249_create_initial_schema.sql).     *)
(*                                                                         *)
(* The component is a React function component: its state is the useState  *)
(* cells, its operations are the effect that loads the subject and creates *)
(* the session, the one-second timer, the input's onChange and the form's  *)
(* onSubmit handler.  The two async functions suspend at every await; each *)
(* invocation is a record holding its captured locals and its position.    *)
(* A request to the store completes in one step: the store applies it (or  *)
(* rejects it) and the awaiting invocation runs on to its next await.      *)
(* The client resolves every request with {data, error}; the code reads    *)
(* data of the two requests of the loader and nothing of the two writes of *)
(* submitAnswer.                                                           *)
(*                                                                         *)
(* Strings are sequences of one-character strings.  Time is the number of  *)
(* seconds since startTime (Learn.tsx line 29, never set again).           *)
(* Columns no operation of the component reads or writes after creation   *)
(* (user_id, start_time, created_at, the generated ids of attempts) are    *)
(* left out of the rows.                                                   *)
(***************************************************************************)
EXTENDS Integers, Sequences, FiniteSets, TLC

VARIABLES
    now,                \* Date.now() - startTime, in whole seconds
    subject,            \* useState<Subject | null>: the subject id, or Null
    session,            \* useState<LearningSession | null>: the row id, or Null
    userAnswer,         \* useState('')
    attempts,           \* useState(0)
    timeSpent,          \* useState(0)
    confusionScore,     \* useState(0)
    feedback,           \* useState({type: null, ...}).type
    showAIHelp,         \* useState(false)
    loading,            \* useState(true)
    learning_sessions,  \* table: sequence of rows, a row's id is its index
    session_attempts,   \* table: set of rows
    loads,              \* running invocations of loadSubjectAndCreateSession
    subs                \* running invocations of submitAnswer, past its guard;
                        \* update holds the payload of the update once issued

vars == <<now, subject, session, userAnswer, attempts, timeSpent,
          confusionScore, feedback, showAIHelp, loading, learning_sessions,
          session_attempts, loads, subs>>

Null == "null"      \* null of a string-valued cell (subject, feedback.type)
NoSession == 0      \* null of the session cell; row ids start at 1
NoTime == {}        \* null of a timestamp column; a set timestamp t is {t}

\* ------------------------------------------------------------ bounds
MaxSessions == 2    \* sessions created, or being created by a running load
MaxSubmits == 2     \* calls of submitAnswer that pass the guard
MaxElapsed == 25    \* the last second the clock reaches
MaxAttempts == 5    \* submissions of the session in which the score is examined
MaxTyped == 3       \* characters of an answer where the comparison is examined

\* ------------------------------------------------------------ constants
CONFUSION_THRESHOLD == 40

\* The instants at which something happens.
Instants == {0, MaxElapsed}

\* The seconds at which the score is examined: below, at and past the 60
\* where the time term saturates.
ScoreInstants == {0, 10, 25, 59, 60, 61, 60 + MaxElapsed}

\* ------------------------------------------------------------ data
\* The subjects table: quiz items whose correct answers are of mixed case, of
\* one letter, and with a space at the end.  The route carries the identifier
\* of the first item or one that resolves to none.
SubjectIds == {"s1", "s0"}
Subjects ==
    [s \in {"s1", "s2", "s3"} |->
        [id |-> s,
         correct_answer |-> CASE s = "s1" -> <<"A", "b">>
                              [] s = "s2" -> <<"B">>
                              [] s = "s3" -> <<"b", " ">>]]

\* What the user may have typed into the input.
Answers == { <<>>,
             <<" ", " ">>,
             <<" ", "x", "a", "B", " ">>,
             <<"a", " ", "b">> }

\* The characters of the answers where the comparison is examined, and the
\* answers of up to MaxTyped of them.
Chars == {"A", "a", "B", "b", "x", " "}
TypedAnswers == UNION {[1..k -> Chars] : k \in 0..MaxTyped}

\* ------------------------------------------------------------ strings
ToLowerChar(c) == CASE c = "A" -> "a" [] c = "B" -> "b" [] OTHER -> c

toLowerCase(s) == [i \in 1..Len(s) |-> ToLowerChar(s[i])]

IsSpace(c) == c = " "

trim(s) ==
    LET keep == {i \in 1..Len(s) : ~IsSpace(s[i])}
    IN  IF keep = {} THEN <<>>
        ELSE LET lo == CHOOSE i \in keep : \A j \in keep : i <= j
                 hi == CHOOSE i \in keep : \A j \in keep : j <= i
             IN  SubSeq(s, lo, hi)

includes(s, t) ==
    \E i \in 0..(Len(s) - Len(t)) : SubSeq(s, i + 1, i + Len(t)) = t

Min(a, b) == IF a <= b THEN a ELSE b

Remove(seq, i) == SubSeq(seq, 1, i - 1) \o SubSeq(seq, i + 1, Len(seq))

\* ------------------------------------------------------------ submitAnswer, pure parts
\* GuardReturns as it would be with !userAnswer in place of !userAnswer.trim()
GuardReturnsUntrimmed(subj, sess, answer) ==
    subj = Null \/ sess = NoSession \/ answer = <<>>

\* GuardReturns as it would be without !session
GuardReturnsWithoutSession(subj, sess, answer) ==
    subj = Null \/ trim(answer) = <<>>

\* line 77
GuardReturns(subj, sess, answer) ==
    subj = Null \/ sess = NoSession \/ trim(answer) = <<>>

\* NewConfusionScore as it would be without the outer Math.min(100, ...)
NewConfusionScoreUncapped(newAttempts, currentTime) ==
    newAttempts * 20 + Min(currentTime, 60)

\* line 82
NewConfusionScore(newAttempts, currentTime) ==
    Min(100, newAttempts * 20 + Min(currentTime, 60))

\* IsCorrect as it would be with === in place of includes
IsCorrectByEquality(answer, correct_answer) ==
    trim(toLowerCase(answer)) = toLowerCase(correct_answer)

\* lines 88-90
IsCorrect(answer, correct_answer) ==
    includes(trim(toLowerCase(answer)), toLowerCase(correct_answer))

\* lines 92-98
AttemptRow(s) ==
    [session_id |-> s.session, attempt_number |-> s.newAttempts,
     user_answer |-> s.userAnswer, is_correct |-> s.isCorrect,
     time_from_start |-> s.currentTime]

\* line 107
AiHelpShown(score, shown) == score >= CONFUSION_THRESHOLD \/ shown

\* EndTime as it would be if the timestamp were written on every update
EndTimeOnEveryUpdate(isCorrect, t) == {t}

\* line 108
EndTime(isCorrect, t) == IF isCorrect THEN {t} ELSE NoTime

\* lines 102-109: the payload of the update, built at second t, when the insert
\* has returned
SessionUpdate(s, t) ==
    [attempts |-> s.newAttempts, time_spent |-> s.currentTime,
     confusion_score |-> s.newConfusionScore, is_completed |-> s.isCorrect,
     ai_help_shown |-> AiHelpShown(s.newConfusionScore, s.showAIHelp),
     end_time |-> EndTime(s.isCorrect, t)]

\* lines 112-121
FeedbackOf(isCorrect) == IF isCorrect THEN "success" ELSE "error"

\* ShowAIHelpAfter as it would be with lines 123-125 after the if/else
ShowAIHelpAfterEitherBranch(isCorrect, score, shown) ==
    IF score >= CONFUSION_THRESHOLD THEN TRUE ELSE shown

\* lines 117, 123-125
ShowAIHelpAfter(isCorrect, score, shown) ==
    IF ~isCorrect /\ score >= CONFUSION_THRESHOLD THEN TRUE ELSE shown

\* lines 215, 221: the input and the button are disabled after a success
FormDisabled == feedback = "success"

\* lines 135-157: what the component renders
View ==
    IF loading THEN "loading" ELSE IF subject = Null THEN "notfound" ELSE "question"

\* line 252: the help card is rendered
HelpCardShown == View = "question" /\ showAIHelp /\ feedback # "success"

\* ------------------------------------------------------------ the store
\* schema lines 118-130: the defaults of a created row
NewSessionRow(subjectId) ==
    [subject_id |-> subjectId, end_time |-> NoTime, attempts |-> 0,
     time_spent |-> 0, confusion_score |-> 0, is_completed |-> FALSE,
     ai_help_shown |-> FALSE]

\* update ... eq('id', id): the named columns of the one row are overwritten
ApplyUpdate(rows, id, payload) ==
    [rows EXCEPT ![id] =
        [subject_id |-> @.subject_id, end_time |-> payload.end_time,
         attempts |-> payload.attempts, time_spent |-> payload.time_spent,
         confusion_score |-> payload.confusion_score,
         is_completed |-> payload.is_completed,
         ai_help_shown |-> payload.ai_help_shown]]

\* select ... eq('id', id).maybeSingle()
SubjectData(id, ok) == IF ok /\ id \in DOMAIN Subjects THEN id ELSE Null

\* ------------------------------------------------------------ initial state
Init ==
    /\ now = 0
    /\ subject = Null
    /\ session = NoSession
    /\ userAnswer = <<>>
    /\ attempts = 0
    /\ timeSpent = 0
    /\ confusionScore = 0
    /\ feedback = Null
    /\ showAIHelp = FALSE
    /\ loading = TRUE
    /\ learning_sessions = <<>>
    /\ session_attempts = {}
    /\ loads = <<>>
    /\ subs = <<>>

\* ------------------------------------------------------------ environment
\* The outcomes a request can have: the store applies it (TRUE), or answers
\* with an error and applies nothing (FALSE).
Outcomes == BOOLEAN

\* The wall clock moves on.
ClockAdvance ==
    /\ \E t \in Instants : t > now /\ now' = t
    /\ UNCHANGED <<subject, session, userAnswer, attempts, timeSpent,
                   confusionScore, feedback, showAIHelp, loading,
                   learning_sessions, session_attempts, loads, subs>>

\* TimerTick as it would be if the callback also saved the time to the session
TimerTickPersisting ==
    /\ timeSpent' = now
    /\ learning_sessions' =
          IF session = NoSession THEN learning_sessions
          ELSE [learning_sessions EXCEPT ![session].time_spent = now]
    /\ UNCHANGED <<now, subject, session, userAnswer, attempts,
                   confusionScore, feedback, showAIHelp, loading,
                   session_attempts, loads, subs>>

\* lines 38-44: the interval callback
TimerTick ==
    /\ timeSpent' = now
    /\ UNCHANGED <<now, subject, session, userAnswer, attempts,
                   confusionScore, feedback, showAIHelp, loading,
                   learning_sessions, session_attempts, loads, subs>>

\* line 213: onChange of the input (disabled after a success, line 215)
SetUserAnswer ==
    /\ ~FormDisabled
    /\ \E a \in Answers : userAnswer' = a
    /\ UNCHANGED <<now, subject, session, attempts, timeSpent,
                   confusionScore, feedback, showAIHelp, loading,
                   learning_sessions, session_attempts, loads, subs>>

\* ------------------------------------------------------------ loadSubjectAndCreateSession
\* lines 32-36, 47-51: the effect runs (mount, or subjectId or user changed)
\* and the select is issued
LoadEffect ==
    /\ Len(learning_sessions) + Len(loads) < MaxSessions
    /\ \E id \in SubjectIds :
          loads' = Append(loads, [pc |-> "select", subjectId |-> id])
    /\ UNCHANGED <<now, subject, session, userAnswer, attempts, timeSpent,
                   confusionScore, feedback, showAIHelp, loading,
                   learning_sessions, session_attempts, subs>>

\* lines 47-64, 71: the select of invocation i returns; with a subject the
\* session insert is issued, without one the function ends
SelectReturnsAs(i, ok) ==
    /\ loads[i].pc = "select"
    /\ LET subjectData == SubjectData(loads[i].subjectId, ok)
       IN  IF subjectData # Null
           THEN /\ subject' = subjectData
                /\ loads' = [loads EXCEPT ![i].pc = "insert"]
                /\ UNCHANGED loading
           ELSE /\ loading' = FALSE
                /\ loads' = Remove(loads, i)
                /\ UNCHANGED subject
    /\ UNCHANGED <<now, session, userAnswer, attempts, timeSpent,
                   confusionScore, feedback, showAIHelp,
                   learning_sessions, session_attempts, subs>>

SelectReturns ==
    \E i \in 1..Len(loads), ok \in Outcomes : SelectReturnsAs(i, ok)

\* lines 56-71: the session insert of invocation i returns
SessionInsertReturnsAs(i, ok) ==
    /\ loads[i].pc = "insert"
    /\ IF ok
       THEN /\ learning_sessions' =
                   Append(learning_sessions, NewSessionRow(loads[i].subjectId))
            /\ session' = Len(learning_sessions) + 1
       ELSE UNCHANGED <<learning_sessions, session>>
    /\ loading' = FALSE
    /\ loads' = Remove(loads, i)
    /\ UNCHANGED <<now, subject, userAnswer, attempts, timeSpent,
                   confusionScore, feedback, showAIHelp,
                   session_attempts, subs>>

SessionInsertReturns ==
    \E i \in 1..Len(loads), ok \in Outcomes : SessionInsertReturnsAs(i, ok)

\* ------------------------------------------------------------ submitAnswer
\* lines 74-98: the handler up to its first await, at most `limit` times past
\* the guard
SubmitAnswerUpTo(limit) ==
    /\ ~FormDisabled
    /\ IF GuardReturns(subject, session, userAnswer)
       THEN UNCHANGED <<attempts, timeSpent, confusionScore, subs>>
       ELSE LET newAttempts == attempts + 1
                currentTime == now
                newConfusionScore == NewConfusionScore(newAttempts, currentTime)
            IN  /\ attempts < limit
                /\ attempts' = newAttempts
                /\ timeSpent' = currentTime
                /\ confusionScore' = newConfusionScore
                /\ subs' = Append(subs,
                      [pc |-> "insert",
                       session |-> session,
                       newAttempts |-> newAttempts,
                       currentTime |-> currentTime,
                       newConfusionScore |-> newConfusionScore,
                       userAnswer |-> userAnswer,
                       isCorrect |-> IsCorrect(userAnswer, Subjects[subject].correct_answer),
                       showAIHelp |-> showAIHelp,
                       update |-> <<>>])
    /\ UNCHANGED <<now, subject, session, userAnswer, feedback, showAIHelp,
                   loading, learning_sessions, session_attempts, loads>>

SubmitAnswer == SubmitAnswerUpTo(MaxSubmits)

\* AttemptInsertReturnsAs as it would be if the handler, when the insert has
\* returned, wrote the session row anew from the attempts recorded
AttemptInsertReturnsAsReconciling(i, ok) ==
    /\ subs[i].pc = "insert"
    /\ session_attempts' =
          IF ok THEN session_attempts \cup {AttemptRow(subs[i])}
          ELSE session_attempts
    /\ learning_sessions' =
          LET hist == {r \in session_attempts' : r.session_id = subs[i].session}
              last == CHOOSE r \in hist :
                          \A q \in hist : q.attempt_number <= r.attempt_number
          IN  [learning_sessions EXCEPT ![subs[i].session] =
                 [@ EXCEPT !.attempts = Cardinality(hist),
                           !.is_completed = \E r \in hist : r.is_correct,
                           !.confusion_score =
                               IF hist = {} THEN 0
                               ELSE NewConfusionScore(last.attempt_number,
                                                      last.time_from_start)]]
    /\ subs' = [subs EXCEPT ![i].pc = "update",
                            ![i].update = <<SessionUpdate(subs[i], now)>>]
    /\ UNCHANGED <<now, subject, session, userAnswer, attempts, timeSpent,
                   confusionScore, feedback, showAIHelp, loading, loads>>

\* lines 92-110: the attempt insert of invocation i returns and the session
\* update is issued
AttemptInsertReturnsAs(i, ok) ==
    /\ subs[i].pc = "insert"
    /\ session_attempts' =
          IF ok THEN session_attempts \cup {AttemptRow(subs[i])}
          ELSE session_attempts
    /\ subs' = [subs EXCEPT ![i].pc = "update",
                            ![i].update = <<SessionUpdate(subs[i], now)>>]
    /\ UNCHANGED <<now, subject, session, userAnswer, attempts, timeSpent,
                   confusionScore, feedback, showAIHelp, loading,
                   learning_sessions, loads>>

AttemptInsertReturns ==
    \E i \in 1..Len(subs), ok \in Outcomes : AttemptInsertReturnsAs(i, ok)

\* SessionUpdateReturnsAs as it would be without the await of line 92: the
\* update is issued along with the insert and may return before it
SessionUpdateReturnsAsUnawaited(i, ok) ==
    /\ subs[i].pc \in {"insert", "update"}
    /\ learning_sessions' =
          IF ok
          THEN ApplyUpdate(learning_sessions, subs[i].session,
                           IF subs[i].update = <<>>
                           THEN SessionUpdate(subs[i], now)
                           ELSE subs[i].update[1])
          ELSE learning_sessions
    /\ feedback' = FeedbackOf(subs[i].isCorrect)
    /\ showAIHelp' = ShowAIHelpAfter(subs[i].isCorrect,
                                     subs[i].newConfusionScore, showAIHelp)
    /\ subs' = Remove(subs, i)
    /\ UNCHANGED <<now, subject, session, userAnswer, attempts, timeSpent,
                   confusionScore, loading, session_attempts, loads>>

\* lines 100-126: the session update of invocation i returns and the handler
\* runs to its end
SessionUpdateReturnsAs(i, ok) ==
    /\ subs[i].pc = "update"
    /\ learning_sessions' =
          IF ok
          THEN ApplyUpdate(learning_sessions, subs[i].session,
                           subs[i].update[1])
          ELSE learning_sessions
    /\ feedback' = FeedbackOf(subs[i].isCorrect)
    /\ showAIHelp' = ShowAIHelpAfter(subs[i].isCorrect,
                                     subs[i].newConfusionScore, showAIHelp)
    /\ subs' = Remove(subs, i)
    /\ UNCHANGED <<now, subject, session, userAnswer, attempts, timeSpent,
                   confusionScore, loading, session_attempts, loads>>

SessionUpdateReturns ==
    \E i \in 1..Len(subs), ok \in Outcomes : SessionUpdateReturnsAs(i, ok)

\* ------------------------------------------------------------ specification
Next ==
    \/ ClockAdvance
    \/ TimerTick
    \/ SetUserAnswer
    \/ LoadEffect
    \/ SelectReturns
    \/ SessionInsertReturns
    \/ SubmitAnswer
    \/ AttemptInsertReturns
    \/ SessionUpdateReturns

Spec == Init /\ [][Next]_vars

\* ------------------------------------------------------------ one session
\* SpecSession leaves the loader aside: the session of subject s1 has just been
\* created at second 0 and the page runs on from there, with the clock, the
\* timer, the input and the submissions, one more of them than in Spec.
InitSession ==
    /\ now = 0
    /\ subject = "s1"
    /\ session = 1
    /\ userAnswer = <<>>
    /\ attempts = 0
    /\ timeSpent = 0
    /\ confusionScore = 0
    /\ feedback = Null
    /\ showAIHelp = FALSE
    /\ loading = FALSE
    /\ learning_sessions = <<NewSessionRow("s1")>>
    /\ session_attempts = {}
    /\ loads = <<>>
    /\ subs = <<>>

NextSession ==
    \/ ClockAdvance
    \/ TimerTick
    \/ SetUserAnswer
    \/ SubmitAnswerUpTo(MaxSubmits + 1)
    \/ AttemptInsertReturns
    \/ SessionUpdateReturns

SpecSession == InitSession /\ [][NextSession]_vars

\* ------------------------------------------------------------ the score, deep into a session
\* Spec follows the page through its first MaxSubmits submissions, with all
\* that goes on around them.  SpecScore follows one session further, up to
\* submission number MaxAttempts: the session of subject s1 has been created,
\* it is second t, a wrong answer is in the input and is submitted again and
\* again, each submission with its two writes, which the store applies or not.
InitScore ==
    \E t \in ScoreInstants :
        /\ now = t
        /\ subject = "s1"
        /\ session = 1
        /\ userAnswer = <<"a", " ", "b">>
        /\ attempts = 0
        /\ timeSpent = 0
        /\ confusionScore = 0
        /\ feedback = Null
        /\ showAIHelp = FALSE
        /\ loading = FALSE
        /\ learning_sessions = <<NewSessionRow("s1")>>
        /\ session_attempts = {}
        /\ loads = <<>>
        /\ subs = <<>>

NextScore ==
    \/ SubmitAnswerUpTo(MaxAttempts)
    \/ AttemptInsertReturns
    \/ SessionUpdateReturns

SpecScore == InitScore /\ [][NextScore]_vars

\* ------------------------------------------------------------ the comparison of the answer
\* SpecAnswer follows the one submission of an answer of up to MaxTyped
\* characters to any of the quiz items, at second 0 of a session just created.
InitAnswer ==
    \E s \in DOMAIN Subjects, a \in TypedAnswers :
        /\ now = 0
        /\ subject = s
        /\ session = 1
        /\ userAnswer = a
        /\ attempts = 0
        /\ timeSpent = 0
        /\ confusionScore = 0
        /\ feedback = Null
        /\ showAIHelp = FALSE
        /\ loading = FALSE
        /\ learning_sessions = <<NewSessionRow(s)>>
        /\ session_attempts = {}
        /\ loads = <<>>
        /\ subs = <<>>

NextAnswer ==
    \/ SubmitAnswerUpTo(1)
    \/ AttemptInsertReturns
    \/ SessionUpdateReturns

SpecAnswer == InitAnswer /\ [][NextAnswer]_vars

\* ------------------------------------------------------------ after a partial write
\* The first submission of a session, a wrong answer given at second t, as its
\* invocation stands when its insert has returned.
FirstSubmission(t) ==
    [pc |-> "update", session |-> 1, newAttempts |-> 1, currentTime |-> t,
     newConfusionScore |-> NewConfusionScore(1, t),
     userAnswer |-> <<"a", " ", "b">>,
     isCorrect |-> IsCorrect(<<"a", " ", "b">>, Subjects["s1"].correct_answer),
     showAIHelp |-> FALSE, update |-> <<>>]

\* SpecPartial takes the page up when that first submission has ended with one
\* of its two writes applied and the other answered with an error, and follows
\* the submissions after it.
InitPartial ==
    \E t \in Instants, insertApplied \in BOOLEAN :
        LET s == FirstSubmission(t)
        IN  /\ now = t
            /\ subject = "s1"
            /\ session = 1
            /\ userAnswer = s.userAnswer
            /\ attempts = 1
            /\ timeSpent = t
            /\ confusionScore = s.newConfusionScore
            /\ feedback = FeedbackOf(s.isCorrect)
            /\ showAIHelp = ShowAIHelpAfter(s.isCorrect, s.newConfusionScore, FALSE)
            /\ loading = FALSE
            /\ learning_sessions =
                  IF insertApplied THEN <<NewSessionRow("s1")>>
                  ELSE ApplyUpdate(<<NewSessionRow("s1")>>, 1, SessionUpdate(s, t))
            /\ session_attempts = IF insertApplied THEN {AttemptRow(s)} ELSE {}
            /\ loads = <<>>
            /\ subs = <<>>

NextPartial ==
    \/ ClockAdvance
    \/ SetUserAnswer
    \/ SubmitAnswerUpTo(MaxSubmits + 1)
    \/ AttemptInsertReturns
    \/ SessionUpdateReturns

SpecPartial == InitPartial /\ [][NextPartial]_vars

\* ============================================================ claims
Rows == DOMAIN learning_sessions

AttemptsOf(id) == {r \in session_attempts : r.session_id = id}

AttemptNumbersOf(id) == {r.attempt_number : r \in AttemptsOf(id)}

\* C1: the persisted is_completed of a session never goes back from true to
\* false, and it turns true only when the update of a correct submission is
\* applied.
C1_CompletedOnceForGood ==
    [][\A id \in Rows :
          /\ learning_sessions[id].is_completed
                => learning_sessions'[id].is_completed
          /\ (~learning_sessions[id].is_completed
                /\ learning_sessions'[id].is_completed)
                => \E i \in 1..Len(subs) :
                      /\ subs[i].isCorrect
                      /\ subs[i].session = id
                      /\ SessionUpdateReturnsAs(i, TRUE)]_vars

\* C2: the persisted confusion_score of a session never decreases from one
\* state of the row to the next.
C2_ConfusionNeverDecreases ==
    [][\A id \in Rows :
          learning_sessions'[id].confusion_score
              >= learning_sessions[id].confusion_score]_vars

\* C3: in every state of every persisted session row, end_time is set if and
\* only if is_completed is true.
C3_EndTimeIffCompleted ==
    \A id \in Rows :
        (learning_sessions[id].end_time # NoTime) <=> learning_sessions[id].is_completed

\* C3 happens: an update of a correct submission has been applied to a row,
\* and an update of a wrong one to another or the same row before it.
C3_Witness ==
    \E id \in Rows :
        /\ learning_sessions[id].is_completed
        /\ learning_sessions[id].end_time # NoTime
        /\ learning_sessions[id].attempts = 2

\* C4: when the update of a submission that computed a confusion of 40 or more
\* is applied, the persisted ai_help_shown is true, and once true it is true in
\* every later state of the row.
C4_HelpShownForGood ==
    [][\A id \in Rows :
          /\ \A i \in 1..Len(subs) :
                (/\ subs[i].session = id
                 /\ subs[i].newConfusionScore >= CONFUSION_THRESHOLD
                 /\ SessionUpdateReturnsAs(i, TRUE))
                => learning_sessions'[id].ai_help_shown
          /\ learning_sessions[id].ai_help_shown
                => learning_sessions'[id].ai_help_shown]_vars

\* C5: when no submission is running, the attempt numbers recorded for a
\* session are 1, 2, ..., k for some k: they start at 1 and have no gap.
C5_AttemptNumbersFromOneNoGap ==
    subs = <<>> =>
        \A id \in Rows :
            AttemptNumbersOf(id) = 1..Cardinality(AttemptNumbersOf(id))

\* The score the specification states: min(100, n * 20 + min(t, 60)).
StatedScore(n, t) ==
    LET time == IF t < 60 THEN t ELSE 60
        sum == n * 20 + time
    IN  IF sum < 100 THEN sum ELSE 100

\* C6: the score every running submission has computed is the stated one and
\* lies in 0..100, as do the displayed and the persisted scores; from the 4th
\* attempt on, at 60 seconds or later, it is 100.
C6_ScoreAsStated ==
    /\ \A i \in 1..Len(subs) :
          LET n == subs[i].newAttempts
              t == subs[i].currentTime
          IN  /\ n >= 1 /\ t >= 0
              /\ subs[i].newConfusionScore = StatedScore(n, t)
              /\ subs[i].newConfusionScore \in 0..100
              /\ (n >= 4 /\ t >= 60) => subs[i].newConfusionScore = 100
    /\ confusionScore \in 0..100
    /\ \A id \in Rows : learning_sessions[id].confusion_score \in 0..100

\* C6 happens: the 5th attempt, past 60 seconds, has computed 100 and written it.
C6_Witness ==
    /\ attempts >= 5
    /\ now > 60
    /\ confusionScore = 100
    /\ learning_sessions[1].attempts = 5
    /\ learning_sessions[1].confusion_score = 100

\* A step in which invocation i of submitAnswer ends.
Ends(i) == \E ok \in Outcomes : SessionUpdateReturnsAs(i, ok)

C8_BlankAnswerChangesNothing ==
    trim(userAnswer) = <<>> => ~ENABLED (SubmitAnswer /\ vars' # vars)

\* C8 happens: the form is there and enabled, subject and session are loaded,
\* and the input holds two spaces.
C8_Witness ==
    /\ View = "question"
    /\ ~FormDisabled
    /\ session # NoSession
    /\ userAnswer = <<" ", " ">>
    /\ attempts < MaxSubmits
    /\ ENABLED SubmitAnswer

\* C9: when the select of a load whose subject identifier resolves to no
\* subject returns, the page shows "Subject not found", no session insert is
\* issued or applied, and the session of the page is null.
C9_UnresolvedSubjectNotFound ==
    [][\A i \in 1..Len(loads) :
          (/\ loads[i].subjectId \notin DOMAIN Subjects
           /\ \E ok \in Outcomes : SelectReturnsAs(i, ok))
          => /\ View' = "notfound"
             /\ session' = NoSession
             /\ learning_sessions' = learning_sessions
             /\ \A j \in 1..Len(loads') : loads'[j].pc # "insert" \/ j < i]_vars

\* C10: when the store answers the last write of a submission, the session
\* update, with an error, the submission does not end as after a success: the
\* feedback and the help flag are not set to the outcome of the answer but
\* stay as they were.
C10_FailedWriteSurfaces ==
    [][\A i \in 1..Len(subs) :
          (SessionUpdateReturnsAs(i, FALSE) /\ ~SessionUpdateReturnsAs(i, TRUE))
              => UNCHANGED <<feedback, showAIHelp>>]_vars

\* C11: each invocation of submitAnswer that passes the guard issues its two
\* writes in order: it starts with the attempt insert issued and no update; its
\* update is issued in the step in which its insert returns, never before; it
\* ends when that update returns; and rows of the two tables are written by
\* these returns only, the attempts by the insert, the session by the update.
C11_InsertThenUpdate ==
    [][/\ Len(subs') > Len(subs) =>
             /\ Len(subs') = Len(subs) + 1
             /\ SubSeq(subs', 1, Len(subs)) = subs
             /\ subs'[Len(subs')].pc = "insert"
             /\ subs'[Len(subs')].update = <<>>
       /\ Len(subs') = Len(subs) =>
             \A i \in 1..Len(subs) :
                 subs'[i] # subs[i] =>
                     /\ subs[i].pc = "insert" /\ subs[i].update = <<>>
                     /\ subs'[i].pc = "update" /\ Len(subs'[i].update) = 1
                     /\ \E ok \in Outcomes : AttemptInsertReturnsAs(i, ok)
       /\ Len(subs') < Len(subs) =>
             \E i \in 1..Len(subs) :
                 /\ subs[i].pc = "update" /\ Len(subs[i].update) = 1
                 /\ Ends(i)
       /\ session_attempts' # session_attempts =>
             \E i \in 1..Len(subs) : AttemptInsertReturnsAs(i, TRUE)
       /\ (\E id \in Rows : learning_sessions'[id] # learning_sessions[id]) =>
             \E i \in 1..Len(subs) : SessionUpdateReturnsAs(i, TRUE)]_vars

\* C11 happens: the insert of a submission has returned and written its row,
\* and its update is issued and has not returned.
C11_Witness ==
    \E i \in 1..Len(subs) :
        /\ subs[i].pc = "update"
        /\ AttemptRow(subs[i]) \in session_attempts
        /\ learning_sessions[subs[i].session].attempts < subs[i].newAttempts

\* Two characters are the same letter, whatever their case.
SameIgnoringCase(c, d) ==
    \/ c = d
    \/ {c, d} = {"A", "a"}
    \/ {c, d} = {"B", "b"}

\* The comparison the specification states: the correct answer occurs, case
\* ignored, at some position k of the trimmed answer.
StatedIsCorrect(rawAnswer, correctAnswer) ==
    LET a == trim(rawAnswer)
    IN  \E k \in 1..(Len(a) + 1) :
            /\ k + Len(correctAnswer) - 1 <= Len(a)
            /\ \A j \in 1..Len(correctAnswer) :
                   SameIgnoringCase(a[k + j - 1], correctAnswer[j])

\* C12: the isCorrect a submission has computed, and the is_correct it has
\* recorded and the is_completed it has written, are true exactly when the
\* correct answer of the subject occurs, case ignored, as a contiguous part of
\* the trimmed answer.
C12_CorrectIffContained ==
    /\ \A i \in 1..Len(subs) :
          subs[i].isCorrect =
              StatedIsCorrect(subs[i].userAnswer, Subjects[subject].correct_answer)
    /\ \A r \in session_attempts :
          r.is_correct =
              StatedIsCorrect(r.user_answer, Subjects[subject].correct_answer)
    /\ learning_sessions[1].attempts = 1 =>
          learning_sessions[1].is_completed =
              StatedIsCorrect(userAnswer, Subjects[subject].correct_answer)

\* C12 happens: "xaB" was submitted where the correct answer is "Ab", and was
\* recorded as correct though it is not equal to it.
C12_Witness ==
    /\ subject = "s1"
    /\ subs = <<>>
    /\ feedback = "success"
    /\ learning_sessions[1].is_completed
    /\ \E r \in session_attempts :
          r.user_answer = <<"x", "a", "B">> /\ r.is_correct

\* C13: a session completed by its first submission has ai_help_shown false
\* and a confusion below the threshold, however many seconds had elapsed.
C13_FirstCorrectNotFlagged ==
    \A id \in Rows :
        (learning_sessions[id].attempts = 1 /\ learning_sessions[id].is_completed)
            => /\ ~learning_sessions[id].ai_help_shown
               /\ learning_sessions[id].confusion_score < CONFUSION_THRESHOLD

\* The persisted session is in line with the attempts recorded for it: it
\* counts them, it is completed exactly if one of them is correct, and its
\* confusion is that of the last of them.
InLine(id) ==
    LET hist == AttemptsOf(id)
        row == learning_sessions[id]
    IN  /\ row.attempts = Cardinality(hist)
        /\ row.is_completed = (\E r \in hist : r.is_correct)
        /\ IF hist = {} THEN row.confusion_score = 0
           ELSE \E r \in hist :
                    /\ \A q \in hist : q.attempt_number <= r.attempt_number
                    /\ row.confusion_score =
                          NewConfusionScore(r.attempt_number, r.time_from_start)

\* C14 as stated: after a submission of which one write was applied and the
\* other failed, the persisted session is never again in line with the
\* attempts recorded.
C14_NeverBackInLine == ~InLine(1)

\* C14 amended: after such a submission the component retries nothing: an
\* attempt row is inserted only for an invocation whose insert is returning,
\* never for one that has ended, and the persisted session comes back in line
\* with the attempts recorded only in a step in which a write of a later
\* submission, its insert or its update, is applied.
C14_RealignedOnlyByLaterWrite ==
    [][/\ \A r \in session_attempts' \ session_attempts :
             \E i \in 1..Len(subs) :
                 /\ subs[i].pc = "insert"
                 /\ r.attempt_number = subs[i].newAttempts
                 /\ r.attempt_number > 1
       /\ (~InLine(1) /\ InLine(1)') =>
             \E i \in 1..Len(subs) :
                 /\ subs[i].newAttempts > 1
                 /\ \/ SessionUpdateReturnsAs(i, TRUE)
                    \/ AttemptInsertReturnsAs(i, TRUE)]_vars

\* C14 happens: the update of the first submission had failed, and the second
\* submission, with both writes applied, has left the session in line with the
\* two attempts recorded.
C14_Witness ==
    /\ subs = <<>>
    /\ InLine(1)
    /\ learning_sessions[1].attempts = 2
    /\ Cardinality(session_attempts) = 2

\* C15: a tick of the timer sets the displayed time and nothing else: no
\* invocation starts or moves, no row is written, and the attempts counter, the
\* score, the help flag and the feedback stay as they are.  The time that is
\* persisted is the one a submission read when it was made: the clock's, not
\* the displayed one, in the attempt row, in the session row and in its score.
C15_TickOnlyDisplays ==
    [][/\ TimerTick =>
             /\ timeSpent' = now
             /\ UNCHANGED <<attempts, confusionScore, showAIHelp, feedback,
                            learning_sessions, session_attempts, subs, loads>>
       /\ Len(subs') > Len(subs) => subs'[Len(subs')].currentTime = now
       /\ \A i \in 1..Len(subs) :
             /\ AttemptInsertReturnsAs(i, TRUE) =>
                   \A r \in session_attempts' \ session_attempts :
                       r.time_from_start = subs[i].currentTime
             /\ SessionUpdateReturnsAs(i, TRUE) =>
                   LET row == learning_sessions'[subs[i].session]
                   IN  /\ row.time_spent = subs[i].currentTime
                       /\ row.confusion_score =
                             StatedScore(subs[i].newAttempts, subs[i].currentTime)]_vars

\* C15 happens: an answer was submitted at second 0; the clock went on and the
\* timer ticked, so the page displays 25 seconds; the session row, written
\* after that, holds the 0 seconds and the score 20 of the submission.
C15_Witness ==
    /\ subs = <<>>
    /\ timeSpent = MaxElapsed
    /\ attempts = 1
    /\ \E id \in Rows :
          /\ learning_sessions[id].attempts = 1
          /\ learning_sessions[id].time_spent = 0
          /\ learning_sessions[id].confusion_score = 20
    /\ \E r \in session_attempts : r.time_from_start = 0

\* C16: while the session of the page is null, a call of submitAnswer changes
\* nothing (no invocation starts, so no write is issued, and the attempts
\* counter does not advance), no submission has ever been made and no attempt
\* is recorded; and every attempt recorded, and every write in flight, carries
\* the identifier of a session row that exists.
C16_NoWriteWithoutSession ==
    /\ session = NoSession =>
          /\ ~ENABLED (SubmitAnswer /\ vars' # vars)
          /\ subs = <<>>
          /\ attempts = 0
          /\ session_attempts = {}
    /\ session # NoSession => session \in Rows
    /\ \A i \in 1..Len(subs) : subs[i].session \in Rows
    /\ \A r \in session_attempts : r.session_id \in Rows

\* C16 happens: the subject is loaded and the question is on display, the
\* session insert has failed, and an answer is in the input, ready to submit.
C16_Witness ==
    /\ View = "question"
    /\ session = NoSession
    /\ loads = <<>>
    /\ trim(userAnswer) # <<>>
    /\ ~FormDisabled
    /\ ENABLED SubmitAnswer

====
